---- MODULE Spec2Model ----
(***************************************************************************)
(* Cargo packets and the vehicle / station cargo lists of cargopacket.h.   *)
(* The header gives the data layout, the inline members (TryMerge,         *)
(* FeederShare, Keep, KeepAll, HasCargoFor, the count accessors) and the   *)
(* declarations of the moving methods; the bodies of the declared-only     *)
(* methods follow the behaviour the specification describes for them.      *)
(***************************************************************************)
EXTENDS Integers, Sequences, FiniteSets, TLC

\* ---- program constants ----
MAX_COUNT == 65535
UINT16_MOD == 65536
\* The default max_move, UINT_MAX: "no limit".  It is only ever compared with
\* amounts of cargo, so the largest number TLC represents stands for it.
NO_LIMIT == 2147483647
INVALID_STATION == 65535
MAX_DAYS == 255
MTA_TRANSFER == 0
MTA_DELIVER == 1
MTA_KEEP == 2
MTA_LOAD == 3

\* ---- bounds of the model ----
MaxPackets == 3
MaxOps == 3
MaxSmall == 2

VARIABLES pool, st, veh, ret, ops, pk

vars == <<pool, st, veh, ret, ops, pk>>

Actions == {MTA_TRANSFER, MTA_DELIVER, MTA_KEEP, MTA_LOAD}
Vehicles == {1, 2}
PacketIDs == 1..MaxPackets
Stations == {1, 2}
Tiles == {1}
Keys == Stations \cup {INVALID_STATION}

Min_Unclamped(a, b) == b
Min(a, b) == IF a < b THEN a ELSE b

\* C++ integer division (truncates towards zero; Money is signed).
Quot(a, b) == IF a >= 0 THEN a \div b ELSE -((-a) \div b)

RECURSIVE SumSet(_, _)
SumSet(S, f) ==
  IF S = {} THEN 0
  ELSE LET x == CHOOSE y \in S : TRUE IN f[x] + SumSet(S \ {x}, f)

\* ---- CargoPacket ----
Packet(cnt, days, src, leg, share) ==
  [count |-> cnt, feeder_share |-> share, days_in_transit |-> days,
   source_st |-> src, leg |-> leg]

\* Money FeederShare(uint part) const
FeederShare_DivideFirst(p, part) == Quot(p.feeder_share, p.count) * part
FeederShare(p, part) == Quot(p.feeder_share * part, p.count)

\* void Merge(CargoPacket *cp): count is a uint16 field.
Merge(this, cp) ==
  [this EXCEPT !.count = (this.count + cp.count) % UINT16_MOD,
               !.feeder_share = this.feeder_share + cp.feeder_share]

\* bool TryMerge(CargoPacket *cp).  ok is the value returned, done tells
\* whether Merge ran (Merge consumes cp), this is the receiving packet after.
TryMerge_Wrap16(this, cp) ==
  IF (this.count + cp.count) % UINT16_MOD > MAX_COUNT
  THEN [ok |-> FALSE, done |-> FALSE, this |-> this]
  ELSE [ok |-> TRUE, done |-> TRUE, this |-> Merge(this, cp)]
TryMerge_ThisOnly(this, cp) ==
  IF this.count > MAX_COUNT
  THEN [ok |-> FALSE, done |-> FALSE, this |-> this]
  ELSE [ok |-> TRUE, done |-> TRUE, this |-> Merge(this, cp)]
TryMerge_OffByOne(this, cp) ==
  IF this.count + cp.count >= MAX_COUNT
  THEN [ok |-> FALSE, done |-> FALSE, this |-> this]
  ELSE [ok |-> TRUE, done |-> TRUE, this |-> Merge(this, cp)]
TryMerge_TrueOnFailure(this, cp) ==
  IF this.count + cp.count > MAX_COUNT
  THEN [ok |-> TRUE, done |-> FALSE, this |-> this]
  ELSE [ok |-> TRUE, done |-> TRUE, this |-> Merge(this, cp)]
TryMerge_Never(this, cp) ==
  [ok |-> FALSE, done |-> FALSE, this |-> this]
TryMerge(this, cp) ==
  IF this.count + cp.count > MAX_COUNT
  THEN [ok |-> FALSE, done |-> FALSE, this |-> this]
  ELSE [ok |-> TRUE, done |-> TRUE, this |-> Merge(this, cp)]

\* CargoPacket *Split(uint new_size): new_size >= count is a fatal error;
\* otherwise SplitNew is the packet returned and SplitRest what this becomes.
SplitFails(this, new_size) == new_size >= this.count

SplitNew(this, new_size) ==
  [this EXCEPT !.count = new_size,
               !.feeder_share = FeederShare(this, new_size)]
SplitRest(this, new_size) ==
  [this EXCEPT !.count = this.count - new_size,
               !.feeder_share = this.feeder_share - FeederShare(this, new_size)]

\* void Reduce(uint count): the caller has checked count < this.count.
Reduce(this, count) ==
  [this EXCEPT !.count = this.count - count,
               !.feeder_share = this.feeder_share - FeederShare(this, count)]

\* ---- packet-level specification: TryMerge, Split, Merge on chosen packets ----
PkCounts == (1..MaxSmall) \cup ((MAX_COUNT - MaxSmall)..MAX_COUNT)
PkShares == {-5, 0, 5}
PkParts == (1..MaxSmall) \cup {MAX_COUNT - 1, MAX_COUNT}

PkInit ==
  \E ca \in PkCounts, cb \in PkCounts, fa \in PkShares, fb \in PkShares :
    LET a == Packet(ca, 0, 1, INVALID_STATION, fa)
        b == Packet(cb, 0, 1, INVALID_STATION, fb)
    IN pk = [pc |-> "init", a |-> a, b |-> b, a0 |-> a, b0 |-> b,
             k |-> 0, ok |-> FALSE]

PkIdle ==
  [pc |-> "idle", a |-> Packet(1, 0, 1, INVALID_STATION, 0),
   b |-> Packet(1, 0, 1, INVALID_STATION, 0),
   a0 |-> Packet(1, 0, 1, INVALID_STATION, 0),
   b0 |-> Packet(1, 0, 1, INVALID_STATION, 0), k |-> 0, ok |-> FALSE]

\* ---- the packet pool: live packets by identifier ----
CanAllocateItem(p) == DOMAIN p # PacketIDs

\* The pool hands out the first free index.
FreeID(p) ==
  CHOOSE i \in PacketIDs :
    i \notin DOMAIN p /\ \A j \in PacketIDs : j < i => j \in DOMAIN p

PoolPut(p, id, cp) == [i \in DOMAIN p \cup {id} |-> IF i = id THEN cp ELSE p[i]]

PoolFree(p, id) == [i \in DOMAIN p \ {id} |-> p[i]]

\* CargoMovement::Preprocess: the packet to move is the whole packet, or a
\* part of max_move units split off it (which needs a free pool slot).
Preprocess(p, id, max_move) ==
  IF max_move < p[id].count
  THEN IF CanAllocateItem(p)
       THEN LET nid == FreeID(p)
            IN [pool |-> PoolPut(PoolPut(p, id, SplitRest(p[id], max_move)),
                                 nid, SplitNew(p[id], max_move)),
                id |-> nid, whole |-> FALSE, fail |-> FALSE]
       ELSE [pool |-> p, id |-> id, whole |-> FALSE, fail |-> TRUE]
  ELSE [pool |-> p, id |-> id, whole |-> TRUE, fail |-> FALSE]

\* ---- CargoList caches ----
\* CargoList::AddToCache
AddToCache(l, cp) ==
  [l EXCEPT !.count = @ + cp.count,
            !.cargo_days_in_transit = @ + cp.days_in_transit * cp.count]

\* CargoList::RemoveFromCache
RemoveFromCache(l, cp, count) ==
  [l EXCEPT !.count = @ - count,
            !.cargo_days_in_transit = @ - cp.days_in_transit * count]

\* ---- VehicleCargoList ----
EmptyVehicleList ==
  [packets |-> <<>>, count |-> 0, cargo_days_in_transit |-> 0,
   feeder_share |-> 0, action_counts |-> [a \in Actions |-> 0]]

\* VehicleCargoList::AddToCache
VehAddToCache(l, cp) ==
  [AddToCache(l, cp) EXCEPT !.feeder_share = @ + cp.feeder_share]

\* VehicleCargoList::RemoveFromCache
VehRemoveFromCache(l, cp, count) ==
  [RemoveFromCache(l, cp, count) EXCEPT !.feeder_share = @ - FeederShare(cp, count)]

\* VehicleCargoList::AddToMeta
AddToMeta(l, cp, action) ==
  [VehAddToCache(l, cp) EXCEPT !.action_counts[action] = @ + cp.count]

\* VehicleCargoList::RemoveFromMeta
RemoveFromMeta_CacheOnly(l, cp, action, count) == VehRemoveFromCache(l, cp, count)
RemoveFromMeta(l, cp, action, count) ==
  [VehRemoveFromCache(l, cp, count) EXCEPT !.action_counts[action] = @ - count]

\* Packets of a vehicle may be merged when provenance, age and load place agree.
VehAreMergable(a, b) ==
  /\ a.source_st = b.source_st
  /\ a.days_in_transit = b.days_in_transit
  /\ a.leg = b.leg

\* Packets of a station may be merged when provenance and age agree.
StAreMergable(a, b) ==
  /\ a.source_st = b.source_st
  /\ a.days_in_transit = b.days_in_transit

\* The merge loop of VehicleCargoList::Append: from the back, over the packets
\* that carry the same designation.
RECURSIVE VehAppendScan(_, _, _, _, _, _)
VehAppendScan(p, l, id, action, i, sum) ==
  IF i = 0
  THEN [pool |-> p, l |-> [l EXCEPT !.packets = Append(@, id)]]
  ELSE LET iid == l.packets[i]
           try == VehAreMergable(p[iid], p[id])
           tm == TryMerge(p[iid], p[id])
           p1 == IF try /\ tm.done THEN PoolFree(PoolPut(p, iid, tm.this), id) ELSE p
           nsum == sum + p[iid].count
       IN IF try /\ tm.ok THEN [pool |-> p1, l |-> l]
          ELSE IF nsum >= l.action_counts[action]
               THEN [pool |-> p1, l |-> [l EXCEPT !.packets = Append(@, id)]]
               ELSE VehAppendScan(p1, l, id, action, i - 1, nsum)

\* void VehicleCargoList::Append(CargoPacket *cp, MoveToAction action)
VehAppend(p, l, id, action) ==
  LET l1 == AddToMeta(l, p[id], action)
  IN IF l1.count = p[id].count
     THEN [pool |-> p, l |-> [l1 EXCEPT !.packets = Append(@, id)]]
     ELSE VehAppendScan(p, l1, id, action, Len(l1.packets), p[id].count)

\* ---- StationCargoList ----
EmptyStationList ==
  [packets |-> [k \in {} |-> <<>>], count |-> 0, cargo_days_in_transit |-> 0,
   reserved_count |-> 0]

Bucket(m, key) == IF key \in DOMAIN m THEN m[key] ELSE <<>>

\* MultiMap: a key with no packets left is erased from the map.
SetBucket_KeepEmpty(m, key, list) ==
  [k \in DOMAIN m \cup {key} |-> IF k = key THEN list ELSE m[k]]
SetBucket(m, key, list) ==
  IF list = <<>>
  THEN [k \in DOMAIN m \ {key} |-> m[k]]
  ELSE [k \in DOMAIN m \cup {key} |-> IF k = key THEN list ELSE m[k]]

RECURSIVE StAppendScan(_, _, _, _, _)
StAppendScan(p, s, id, next, i) ==
  IF i = 0
  THEN [pool |-> p,
        l |-> [s EXCEPT !.packets = SetBucket(@, next, Append(Bucket(@, next), id))]]
  ELSE LET iid == Bucket(s.packets, next)[i]
           try == StAreMergable(p[iid], p[id])
           tm == TryMerge(p[iid], p[id])
           p1 == IF try /\ tm.done THEN PoolFree(PoolPut(p, iid, tm.this), id) ELSE p
       IN IF try /\ tm.ok THEN [pool |-> p1, l |-> s]
          ELSE StAppendScan(p1, s, id, next, i - 1)

\* void StationCargoList::Append(CargoPacket *cp, StationID next)
StAppend(p, s, id, next) ==
  StAppendScan(p, AddToCache(s, p[id]), id, next, Len(Bucket(s.packets, next)))

\* bool HasCargoFor(const StationIDStack &next) const: the loop from next[i].
RECURSIVE HasCargoForFrom(_, _, _)
HasCargoForFrom(m, next, i) ==
  IF i > Len(next) THEN INVALID_STATION \in DOMAIN m
  ELSE IF next[i] \in DOMAIN m THEN TRUE
  ELSE HasCargoForFrom(m, next, i + 1)

HasCargoFor(next) == HasCargoForFrom(st.packets, next, 1)

\* uint AvailableCount() const
AvailableCount == st.count

\* uint StationCargoList::ReservedCount() const
ReservedCount == st.reserved_count

\* uint StationCargoList::TotalCount() const
TotalCount_CountOnly == st.count
TotalCount == st.count + st.reserved_count

\* uint VehicleCargoList::ReservedCount() const
VehReservedCount_Kept(v) == veh[v].action_counts[MTA_KEEP]
VehReservedCount(v) == veh[v].action_counts[MTA_LOAD]

\* uint VehicleCargoList::UnloadCount() const
UnloadCount_TransferOnly(v) == veh[v].action_counts[MTA_TRANSFER]
UnloadCount(v) == veh[v].action_counts[MTA_TRANSFER] + veh[v].action_counts[MTA_DELIVER]

\* void AssertCountConsistency() const
AssertCountConsistency(l) ==
  l.action_counts[MTA_KEEP] + l.action_counts[MTA_DELIVER]
    + l.action_counts[MTA_TRANSFER] + l.action_counts[MTA_LOAD] = l.count

\* void KeepAll()
KeepAll_LoadLeft(l) ==
  [l EXCEPT !.action_counts =
     [a \in Actions |-> IF a = MTA_KEEP THEN l.count
                        ELSE IF a = MTA_LOAD THEN @[a] ELSE 0]]
KeepAll(l) ==
  [l EXCEPT !.action_counts = [a \in Actions |-> IF a = MTA_KEEP THEN l.count ELSE 0]]

\* void Keep(MoveToAction from, uint max_move); from is MTA_DELIVER or MTA_LOAD.
Keep_Unclamped(l, from, max_move) ==
  [l EXCEPT !.action_counts =
     [a \in Actions |-> IF a = from THEN @[a] - max_move
                        ELSE IF a = MTA_KEEP THEN @[a] + max_move ELSE @[a]]]
Keep_FromOnly(l, from, max_move) ==
  [l EXCEPT !.action_counts[from] = @ - Min(l.action_counts[from], max_move)]
Keep(l, from, max_move) ==
  LET m == Min(l.action_counts[from], max_move)
  IN [l EXCEPT !.action_counts =
        [a \in Actions |-> IF a = from THEN @[a] - m
                           ELSE IF a = MTA_KEEP THEN @[a] + m ELSE @[a]]]

\* ---- moving cargo: the world is the pool and all lists; fail marks a run
\* ---- that would end in a fatal assertion or pool exhaustion ----
World == [pool |-> pool, st |-> st, veh |-> veh, fail |-> FALSE]

Failed(w) == [w EXCEPT !.fail = TRUE]

\* VehicleCargoList::PopCargo with CargoReturn, CargoShift or CargoRemoval:
\* packets are taken from the back of the list.
RECURSIVE PopCargo(_, _, _, _, _)
PopCargo(w, v, max_move, kind, dest) ==
  LET l == w.veh[v]
      n == Len(l.packets)
  IN IF max_move = 0 \/ n = 0 \/ w.fail THEN w
     ELSE LET id == l.packets[n]
              cp == w.pool[id]
          IN IF kind = "truncate"
             THEN LET remove == Min(max_move, cp.count)
                      l1 == RemoveFromMeta(l, cp, MTA_KEEP, remove)
                  IN IF remove > l.action_counts[MTA_KEEP] THEN Failed(w)
                     ELSE IF remove = cp.count
                     THEN PopCargo([w EXCEPT !.pool = PoolFree(@, id),
                                             !.veh[v] = [l1 EXCEPT !.packets = SubSeq(@, 1, n - 1)]],
                                   v, max_move - remove, kind, dest)
                     ELSE [w EXCEPT !.pool = PoolPut(@, id, Reduce(cp, remove)),
                                    !.veh[v] = l1]
             ELSE LET pre == Preprocess(w.pool, id, max_move)
                      action == IF kind = "return" THEN MTA_LOAD ELSE MTA_KEEP
                  IN IF pre.fail THEN Failed(w)
                     ELSE LET cpn == pre.pool[pre.id]
                              l1 == RemoveFromMeta(l, cpn, action, cpn.count)
                              l2 == IF pre.whole
                                    THEN [l1 EXCEPT !.packets = SubSeq(@, 1, n - 1)]
                                    ELSE l1
                              w1 == [w EXCEPT !.pool = pre.pool, !.veh[v] = l2]
                              w2 == IF kind = "return"
                                    THEN LET r == StAppend(w1.pool,
                                                   [w1.st EXCEPT !.reserved_count = @ - cpn.count],
                                                   pre.id, INVALID_STATION)
                                         IN [w1 EXCEPT !.pool = r.pool, !.st = r.l]
                                    ELSE LET r == VehAppend(w1.pool, w1.veh[dest], pre.id, MTA_KEEP)
                                         IN [w1 EXCEPT !.pool = r.pool, !.veh[dest] = r.l]
                          IN IF cpn.count > l.action_counts[action]
                                \/ (kind = "return" /\ cpn.count > w.st.reserved_count)
                             THEN Failed(w)
                             ELSE IF pre.whole
                                  THEN PopCargo(w2, v, max_move - cpn.count, kind, dest)
                                  ELSE w2

\* VehicleCargoList::ShiftCargo with CargoTransfer or CargoDelivery:
\* packets are taken from the front of the list.
RECURSIVE ShiftFront(_, _, _, _)
ShiftFront(w, v, max_move, kind) ==
  LET l == w.veh[v]
  IN IF max_move = 0 \/ l.packets = <<>> \/ w.fail THEN w
     ELSE LET id == Head(l.packets)
              cp == w.pool[id]
          IN IF kind = "deliver"
             THEN LET remove == Min(max_move, cp.count)
                      l1 == RemoveFromMeta(l, cp, MTA_DELIVER, remove)
                  IN IF remove > l.action_counts[MTA_DELIVER] THEN Failed(w)
                     ELSE IF remove = cp.count
                     THEN ShiftFront([w EXCEPT !.pool = PoolFree(@, id),
                                               !.veh[v] = [l1 EXCEPT !.packets = Tail(@)]],
                                     v, max_move - remove, kind)
                     ELSE [w EXCEPT !.pool = PoolPut(@, id, Reduce(cp, remove)),
                                    !.veh[v] = l1]
             ELSE LET pre == Preprocess(w.pool, id, max_move)
                  IN IF pre.fail THEN Failed(w)
                     ELSE LET cpn == pre.pool[pre.id]
                              l1 == RemoveFromMeta(l, cpn, MTA_TRANSFER, cpn.count)
                              l2 == IF pre.whole THEN [l1 EXCEPT !.packets = Tail(@)] ELSE l1
                              r == StAppend(pre.pool, w.st, pre.id, cpn.leg)
                              w2 == [w EXCEPT !.pool = r.pool, !.st = r.l, !.veh[v] = l2]
                          IN IF cpn.count > l.action_counts[MTA_TRANSFER] THEN Failed(w)
                             ELSE IF pre.whole
                                  THEN ShiftFront(w2, v, max_move - cpn.count, kind)
                                  ELSE w2

\* StationCargoList::ShiftCargo with CargoReservation or CargoLoad: the buckets
\* of keys are visited in order, each from its front; left is the part of
\* max_move not used.
RECURSIVE StShiftCargo(_, _, _, _, _, _)
StShiftCargo(w, v, max_move, kind, load_place, keys) ==
  IF max_move = 0 \/ keys = <<>> \/ w.fail THEN [w |-> w, left |-> max_move]
  ELSE LET key == Head(keys)
           b == Bucket(w.st.packets, key)
       IN IF b = <<>> THEN StShiftCargo(w, v, max_move, kind, load_place, Tail(keys))
          ELSE LET pre == Preprocess(w.pool, Head(b), max_move)
               IN IF pre.fail THEN [w |-> Failed(w), left |-> max_move]
                  ELSE LET cpn == [pre.pool[pre.id] EXCEPT !.leg = load_place]
                           s0 == IF kind = "reserve"
                                 THEN [w.st EXCEPT !.reserved_count = @ + cpn.count]
                                 ELSE w.st
                           s1 == RemoveFromCache(s0, cpn, cpn.count)
                           s2 == IF pre.whole
                                 THEN [s1 EXCEPT !.packets = SetBucket(@, key, Tail(b))]
                                 ELSE s1
                           r == VehAppend(PoolPut(pre.pool, pre.id, cpn), w.veh[v], pre.id,
                                          IF kind = "reserve" THEN MTA_LOAD ELSE MTA_KEEP)
                           w2 == [w EXCEPT !.pool = r.pool, !.st = s2, !.veh[v] = r.l]
                       IN StShiftCargo(w2, v, max_move - cpn.count, kind, load_place, keys)

\* The keys ShiftCargo visits: the stack's stations, then the wildcard.
VisitOrder_WildcardFirst(next) == <<INVALID_STATION>> \o next
VisitOrder(next) == next \o <<INVALID_STATION>>

InStack_TopOnly(next, sid) == next # <<>> /\ next[1] = sid
InStack(next, sid) == \E i \in 1..Len(next) : next[i] = sid

\* static MoveToAction ChooseAction(cp, cargo_next, current_station, accepted, next_station)
ChooseAction(cp, cargo_next, current_station, accepted, next_station) ==
  IF accepted /\ ~InStack(next_station, cargo_next) THEN MTA_DELIVER
  ELSE IF cargo_next = current_station /\ ~InStack(next_station, cargo_next) THEN MTA_TRANSFER
  ELSE MTA_KEEP

\* The designation Stage gives one packet: the order's unload flags first.
StageAction_FlagsLast(cp, cargo_next, current_station, accepted, next_station, force_unload, transfer) ==
  LET a == ChooseAction(cp, cargo_next, current_station, accepted, next_station)
  IN IF a = MTA_KEEP /\ (cargo_next = INVALID_STATION \/ cargo_next = current_station)
          /\ force_unload
     THEN (IF transfer THEN MTA_TRANSFER ELSE MTA_DELIVER)
     ELSE a
StageAction(cp, cargo_next, current_station, accepted, next_station, force_unload, transfer) ==
  IF (cargo_next = INVALID_STATION \/ cargo_next = current_station) /\ force_unload
  THEN (IF transfer THEN MTA_TRANSFER ELSE MTA_DELIVER)
  ELSE ChooseAction(cp, cargo_next, current_station, accepted, next_station)

\* The loop of VehicleCargoList::Stage over the packets old[i..]: acc holds the
\* pool, the three regions of the new list, the new counts and the feeder
\* share paid for transfers.
RECURSIVE StageLoop(_, _, _, _, _, _, _, _, _, _)
StageLoop(acc, old, i, via, current_station, accepted, next_station, force_unload, transfer, share) ==
  IF i > Len(old) THEN acc
  ELSE LET id == old[i]
           cp == acc.pool[id]
           cargo_next == via[cp.source_st]
           action == StageAction(cp, cargo_next, current_station, accepted,
                                 next_station, force_unload, transfer)
           acc1 ==
             IF action = MTA_TRANSFER
             THEN [acc EXCEPT !.pool = PoolPut(@, id,
                                 [cp EXCEPT !.feeder_share = @ + share, !.leg = cargo_next]),
                              !.transfer = <<id>> \o @,
                              !.paid = @ + share,
                              !.counts[MTA_TRANSFER] = @ + cp.count]
             ELSE IF action = MTA_DELIVER
             THEN [acc EXCEPT !.deliver = Append(@, id), !.counts[MTA_DELIVER] = @ + cp.count]
             ELSE [acc EXCEPT !.keep = Append(@, id), !.counts[MTA_KEEP] = @ + cp.count]
       IN StageLoop(acc1, old, i + 1, via, current_station, accepted, next_station,
                    force_unload, transfer, share)

\* bool VehicleCargoList::Stage(accepted, current_station, next_station, order_flags, ge, payment)
StageResult(p, l, via, current_station, accepted, next_station, force_unload, transfer, share) ==
  LET acc == StageLoop([pool |-> p, transfer |-> <<>>, deliver |-> <<>>, keep |-> <<>>,
                        paid |-> 0, counts |-> [a \in Actions |-> 0]],
                       l.packets, 1, via, current_station, accepted, next_station,
                       force_unload, transfer, share)
  IN [pool |-> acc.pool,
      l |-> [l EXCEPT !.packets = acc.transfer \o acc.deliver \o acc.keep,
                      !.feeder_share = @ + acc.paid,
                      !.action_counts = [a \in Actions |->
                          IF a = MTA_LOAD THEN l.action_counts[a] ELSE acc.counts[a]]]]

\* void VehicleCargoList::AgeCargo()
RECURSIVE AgeLoop_Wrap(_, _, _)
AgeLoop_Wrap(p, l, i) ==
  IF i > Len(l.packets) THEN [pool |-> p, l |-> l]
  ELSE LET id == l.packets[i]
           cp == p[id]
       IN AgeLoop_Wrap(PoolPut(p, id, [cp EXCEPT !.days_in_transit = (@ + 1) % (MAX_DAYS + 1)]),
                       [l EXCEPT !.cargo_days_in_transit = @ + cp.count], i + 1)

RECURSIVE AgeLoop(_, _, _)
AgeLoop(p, l, i) ==
  IF i > Len(l.packets) THEN [pool |-> p, l |-> l]
  ELSE LET id == l.packets[i]
           cp == p[id]
       IN IF cp.days_in_transit = MAX_DAYS THEN AgeLoop(p, l, i + 1)
          ELSE AgeLoop(PoolPut(p, id, [cp EXCEPT !.days_in_transit = @ + 1]),
                       [l EXCEPT !.cargo_days_in_transit = @ + cp.count], i + 1)

\* ---- what a list holds, recomputed from its packets ----
RECURSIVE SortedSeq(_)
SortedSeq(S) ==
  IF S = {} THEN <<>>
  ELSE LET m == CHOOSE x \in S : \A y \in S : x <= y IN <<m>> \o SortedSeq(S \ {m})

RECURSIVE Flatten(_, _)
Flatten(m, keys) == IF keys = <<>> THEN <<>> ELSE m[Head(keys)] \o Flatten(m, Tail(keys))

\* The packets of the station in the map's iteration order.
StPackets(s) == Flatten(s.packets, SortedSeq(DOMAIN s.packets))

RECURSIVE SumCount(_, _)
SumCount(p, ids) ==
  IF ids = <<>> THEN 0
  ELSE (IF Head(ids) \in DOMAIN p THEN p[Head(ids)].count ELSE 0) + SumCount(p, Tail(ids))

RECURSIVE SumDays(_, _)
SumDays(p, ids) ==
  IF ids = <<>> THEN 0
  ELSE (IF Head(ids) \in DOMAIN p
        THEN p[Head(ids)].count * p[Head(ids)].days_in_transit ELSE 0)
       + SumDays(p, Tail(ids))

RECURSIVE SumShare(_, _)
SumShare(p, ids) ==
  IF ids = <<>> THEN 0
  ELSE (IF Head(ids) \in DOMAIN p THEN p[Head(ids)].feeder_share ELSE 0)
       + SumShare(p, Tail(ids))

\* void CargoList::InvalidateCache()
InvalidateCache(p, l, ids) ==
  [l EXCEPT !.count = SumCount(p, ids), !.cargo_days_in_transit = SumDays(p, ids)]

\* void VehicleCargoList::InvalidateCache()
VehInvalidateCache(p, l) ==
  [InvalidateCache(p, l, l.packets) EXCEPT !.feeder_share = SumShare(p, l.packets)]

\* ---- StationCargoList::Truncate: which packets are hit first is drawn at
\* ---- random; order is the order in which the packets are visited ----
KeyOf(m, id) == CHOOSE k \in DOMAIN m : \E i \in 1..Len(m[k]) : m[k][i] = id

Without(list, id) == SelectSeq(list, LAMBDA x : x # id)

RECURSIVE StTruncateLoop(_, _, _, _)
StTruncateLoop(p, s, order, left) ==
  IF left = 0 \/ order = <<>> THEN [pool |-> p, l |-> s]
  ELSE LET id == Head(order)
           cp == p[id]
           key == KeyOf(s.packets, id)
           remove == Min(left, cp.count)
           s1 == RemoveFromCache(s, cp, remove)
       IN IF remove = cp.count
          THEN StTruncateLoop(PoolFree(p, id),
                 [s1 EXCEPT !.packets = SetBucket(@, key, Without(@[key], id))],
                 Tail(order), left - remove)
          ELSE [pool |-> PoolPut(p, id, Reduce(cp, remove)), l |-> s1]

Rotate(list, r) == SubSeq(list, r, Len(list)) \o SubSeq(list, 1, r - 1)

\* ---- StationCargoList::Reroute: every packet under avoid goes to the bucket
\* ---- the goods entry names for its source ----
RECURSIVE RerouteLoop(_, _, _, _)
RerouteLoop(p, m, list, via) ==
  IF list = <<>> THEN m
  ELSE LET id == Head(list)
           next == via[p[id].source_st]
       IN RerouteLoop(p, SetBucket(m, next, Append(Bucket(m, next), id)), Tail(list), via)

\* ---- inputs ----
\* The operations are called on lists that hold cargo they can act on.
NewCounts == {2, MAX_COUNT - 1}
NewDays == {MAX_DAYS - 1}
NewShares == {5}
MoveSet == {1, 3, NO_LIMIT}
TransferShares == {1}
\* The order's unload and transfer flags.
OrderFlags ==
  {[unload |-> FALSE, transfer |-> FALSE], [unload |-> TRUE, transfer |-> FALSE],
   [unload |-> TRUE, transfer |-> TRUE]}
Stacks == {<<>>, <<2>>, <<2, 1>>}
\* The one station list of the model belongs to this station.
CurrentStation == 1

\* What the last call was and what it returned: the operation, the vehicle
\* list it worked on (0: none), max_move, the amount returned, a flag (Stage's
\* result; Load: reserved cargo was taken; Unload: cargo was delivered) and the
\* next-hop stack of Reserve and Load (for the appends: the next hop, or the
\* source station and tile, of the packet appended). For the station's Reroute
\* max_move holds avoid, moved holds avoid2 and next the hop the goods entry
\* named for each source station it was asked about. For AgeCargo moved holds
\* what the call added to cargo_days_in_transit. For Keep next holds from, and
\* the operation is "KeepAssert" when the assert on from failed.
Ret(op, v, max_move, moved, flag) ==
  [op |-> op, v |-> v, max_move |-> max_move, moved |-> moved, flag |-> flag,
   next |-> <<>>]

RetNext(op, v, max_move, moved, flag, next) ==
  [Ret(op, v, max_move, moved, flag) EXCEPT !.next = next]

SetWorld(w) == pool' = w.pool /\ st' = w.st /\ veh' = w.veh

Init ==
  /\ pool = [i \in {} |-> Packet(1, 0, 1, INVALID_STATION, 0)]
  /\ st = EmptyStationList
  /\ veh = [v \in Vehicles |-> EmptyVehicleList]
  /\ ret = Ret("init", 0, 0, 0, FALSE)
  /\ ops = 0
  /\ pk = PkIdle

\* New cargo at the station: CargoPacket(st, count, source_type, source_id),
\* then StationCargoList::Append(cp, next).
StationAppendNew ==
  \E cnt \in NewCounts, src \in {CurrentStation}, next \in Keys :
    /\ ops < MaxOps
    /\ CanAllocateItem(pool)
    /\ LET id == FreeID(pool)
           r == StAppend(PoolPut(pool, id, Packet(cnt, 0, src, next, 0)), st, id, next)
       IN pool' = r.pool /\ st' = r.l
    /\ ret' = RetNext("StationAppend", 0, cnt, cnt, FALSE, <<next>>)
    /\ ops' = ops + 1
    /\ UNCHANGED <<veh, pk>>

\* Cargo put into a vehicle: CargoPacket(count, days_in_transit, source_st,
\* source_xy, loaded_at_xy, feeder_share), then VehicleCargoList::Append(cp).
VehicleAppendNew ==
  \E v \in Vehicles, cnt \in NewCounts, days \in NewDays, src \in Stations,
     tile \in Tiles, share \in NewShares :
    /\ ops < MaxOps
    /\ CanAllocateItem(pool)
    /\ veh[v].action_counts[MTA_LOAD] = 0
    /\ LET id == FreeID(pool)
           r == VehAppend(PoolPut(pool, id, Packet(cnt, days, src, tile, share)),
                          veh[v], id, MTA_KEEP)
       IN pool' = r.pool /\ veh' = [veh EXCEPT ![v] = r.l]
    /\ ret' = RetNext("VehicleAppend", v, cnt, cnt, FALSE, <<src, tile>>)
    /\ ops' = ops + 1
    /\ UNCHANGED <<st, pk>>

\* uint StationCargoList::Reserve(max_move, dest, load_place, next)
Reserve ==
  \E v \in Vehicles, max_move \in MoveSet, load_place \in Tiles, next \in Stacks :
    /\ ops < MaxOps
    /\ DOMAIN st.packets # {}
    /\ LET r == StShiftCargo(World, v, max_move, "reserve", load_place, VisitOrder(next))
       IN /\ ~r.w.fail
          /\ SetWorld(r.w)
          /\ ret' = RetNext("Reserve", v, max_move, max_move - r.left, FALSE, next)
    /\ ops' = ops + 1
    /\ UNCHANGED pk

\* uint StationCargoList::Load(max_move, dest, load_place, next): cargo the
\* vehicle has reserved is taken first, by marking it as kept.
Load ==
  \E v \in Vehicles, max_move \in MoveSet, load_place \in Tiles, next \in Stacks :
    /\ ops < MaxOps
    /\ DOMAIN st.packets # {} \/ veh[v].action_counts[MTA_LOAD] > 0
    /\ IF veh[v].action_counts[MTA_LOAD] > 0
       THEN LET move == Min(veh[v].action_counts[MTA_LOAD], max_move)
            IN /\ move <= st.reserved_count
               /\ veh' = [veh EXCEPT ![v] = Keep(@, MTA_LOAD, move)]
               /\ st' = [st EXCEPT !.reserved_count = @ - move]
               /\ pool' = pool
               /\ ret' = RetNext("Load", v, max_move, move, TRUE, next)
       ELSE LET move == Min(max_move, st.count)
                r == StShiftCargo(World, v, move, "load", load_place, VisitOrder(next))
            IN /\ ~r.w.fail
               /\ SetWorld(r.w)
               /\ ret' = RetNext("Load", v, max_move, move - r.left, FALSE, next)
    /\ ops' = ops + 1
    /\ UNCHANGED pk

\* uint VehicleCargoList::Return(dest, max_move)
Return ==
  \E v \in Vehicles, max_move \in MoveSet :
    /\ ops < MaxOps
    /\ veh[v].action_counts[MTA_LOAD] > 0
    /\ LET move == Min(veh[v].action_counts[MTA_LOAD], max_move)
           w == PopCargo(World, v, move, "return", v)
       IN /\ ~w.fail
          /\ SetWorld(w)
          /\ ret' = Ret("Return", v, max_move, move, FALSE)
    /\ ops' = ops + 1
    /\ UNCHANGED pk

\* The sources of the packets of a list: the goods entry is asked for these.
SourcesOf(p, l) == {p[l.packets[i]].source_st : i \in 1..Len(l.packets)}

\* bool VehicleCargoList::Stage(...): via is what the goods entry answers for
\* each source it is asked about, share what the payment grants a transferred
\* packet.
Stage ==
  \E v \in Vehicles, accepted \in BOOLEAN, current_station \in {CurrentStation},
     next \in Stacks, flags \in OrderFlags, share \in TransferShares :
   \E via \in [SourcesOf(pool, veh[v]) -> Keys] :
    /\ ops < MaxOps
    /\ veh[v].packets # <<>>
    /\ veh[v].action_counts[MTA_LOAD] = 0
    /\ LET r == StageResult(pool, veh[v], via, current_station, accepted, next,
                            flags.unload, flags.transfer, share)
       IN /\ pool' = r.pool
          /\ veh' = [veh EXCEPT ![v] = r.l]
          /\ ret' = Ret("Stage", v, 0, 0,
                        r.l.action_counts[MTA_DELIVER] > 0 \/ r.l.action_counts[MTA_TRANSFER] > 0)
    /\ ops' = ops + 1
    /\ UNCHANGED <<st, pk>>

\* void VehicleCargoList::Transfer()
Transfer ==
  \E v \in Vehicles :
    /\ ops < MaxOps
    /\ veh[v].action_counts[MTA_TRANSFER] > 0
    /\ ops' = ops + 1
    /\ LET move == veh[v].action_counts[MTA_TRANSFER]
           w == ShiftFront(World, v, move, "transfer")
       IN /\ ~w.fail
          /\ SetWorld(w)
          /\ ret' = Ret("Transfer", v, move, move, FALSE)
    /\ UNCHANGED pk

\* uint VehicleCargoList::Unload(max_move, dest, payment)
Unload ==
  \E v \in Vehicles, max_move \in MoveSet :
    /\ ops < MaxOps
    /\ UnloadCount(v) > 0
    /\ LET mt == IF veh[v].action_counts[MTA_TRANSFER] > 0
                 THEN Min(veh[v].action_counts[MTA_TRANSFER], max_move) ELSE 0
           w1 == ShiftFront(World, v, mt, "transfer")
           l1 == w1.veh[v]
           md == IF l1.action_counts[MTA_TRANSFER] = 0 /\ l1.action_counts[MTA_DELIVER] > 0
                    /\ mt < max_move
                 THEN Min(l1.action_counts[MTA_DELIVER], max_move - mt) ELSE 0
           w2 == ShiftFront(w1, v, md, "deliver")
       IN /\ ~w2.fail
          /\ SetWorld(w2)
          /\ ret' = Ret("Unload", v, max_move, mt + md, md > 0)
    /\ ops' = ops + 1
    /\ UNCHANGED pk

\* uint VehicleCargoList::Shift(max_move, dest)
Shift ==
  \E v \in Vehicles, dest \in Vehicles, max_move \in MoveSet :
    /\ dest # v
    /\ veh[dest].action_counts[MTA_LOAD] = 0
    /\ ops < MaxOps
    /\ veh[v].packets # <<>>
    /\ LET move == Min(veh[v].count, max_move)
           w == PopCargo(World, v, move, "shift", dest)
       IN /\ ~w.fail
          /\ SetWorld(w)
          /\ ret' = Ret("Shift", v, max_move, move, FALSE)
    /\ ops' = ops + 1
    /\ UNCHANGED pk

\* uint VehicleCargoList::Truncate(max_move)
VehTruncate ==
  \E v \in Vehicles, max_move \in MoveSet :
    /\ ops < MaxOps
    /\ veh[v].packets # <<>>
    /\ LET move == Min(veh[v].count, max_move)
           w == PopCargo(World, v, move, "truncate", v)
       IN /\ ~w.fail
          /\ SetWorld(w)
          /\ ret' = Ret("VehTruncate", v, max_move, move, FALSE)
    /\ ops' = ops + 1
    /\ UNCHANGED pk

\* uint StationCargoList::Truncate(max_move, cargo_per_source)
StTruncate ==
  \E max_move \in MoveSet, first \in 1..MaxPackets :
    /\ ops < MaxOps
    /\ DOMAIN st.packets # {}
    /\ first <= Len(StPackets(st)) \/ first = 1
    /\ LET move == Min(max_move, st.count)
           r == StTruncateLoop(pool, st, Rotate(StPackets(st), first), move)
       IN /\ pool' = r.pool
          /\ st' = r.l
          /\ ret' = Ret("StTruncate", 0, max_move, st.count - r.l.count, FALSE)
    /\ ops' = ops + 1
    /\ UNCHANGED <<veh, pk>>

\* void VehicleCargoList::Keep(from, max_move)
\* The assert on from ends the program when it fails: no call follows.
DoKeep ==
  \E v \in Vehicles, from \in Actions, max_move \in MoveSet :
    /\ ops < MaxOps
    /\ veh[v].action_counts[from] > 0
    /\ IF from = MTA_DELIVER \/ from = MTA_LOAD
       THEN /\ ops' = ops + 1
            /\ veh' = [veh EXCEPT ![v] = Keep(@, from, max_move)]
            /\ ret' = RetNext("Keep", v, max_move,
                              Min(veh[v].action_counts[from], max_move),
                              from = MTA_LOAD, <<from>>)
       ELSE /\ ops' = MaxOps
            /\ veh' = veh
            /\ ret' = RetNext("KeepAssert", v, 0, 0, FALSE, <<from>>)
    /\ UNCHANGED <<pool, st, pk>>

\* void VehicleCargoList::KeepAll()
DoKeepAll ==
  \E v \in Vehicles :
    /\ ops < MaxOps
    /\ veh[v].packets # <<>>
    /\ ops' = ops + 1
    /\ veh' = [veh EXCEPT ![v] = KeepAll(@)]
    /\ ret' = Ret("KeepAll", v, 0, 0, FALSE)
    /\ UNCHANGED <<pool, st, pk>>

\* void VehicleCargoList::AgeCargo()
AgeCargo ==
  \E v \in Vehicles :
    /\ ops < MaxOps
    /\ veh[v].packets # <<>>
    /\ ops' = ops + 1
    /\ LET r == AgeLoop(pool, veh[v], 1)
       IN /\ pool' = r.pool
          /\ veh' = [veh EXCEPT ![v] = r.l]
          /\ ret' = Ret("AgeCargo", v, 0,
                        r.l.cargo_days_in_transit - veh[v].cargo_days_in_transit, FALSE)
    /\ UNCHANGED <<st, pk>>

\* void StationCargoList::Reroute(avoid, avoid2, ge)
StReroute ==
  \E avoid \in Stations, avoid2 \in Keys :
    \E via \in [Stations -> Keys \ ({avoid} \cup (Stations \cap {avoid2}))] :
      /\ ops < MaxOps
      /\ avoid \in DOMAIN st.packets
      /\ ops' = ops + 1
      /\ st' = [st EXCEPT !.packets =
                  RerouteLoop(pool, SetBucket(@, avoid, <<>>), Bucket(@, avoid), via)]
      /\ ret' = RetNext("StReroute", 0, avoid, avoid2, FALSE,
                         [s \in Stations |->
                            IF \E i \in 1..Len(st.packets[avoid]) :
                                 pool[st.packets[avoid][i]].source_st = s
                            THEN via[s] ELSE INVALID_STATION])
      /\ UNCHANGED <<pool, veh, pk>>

\* void VehicleCargoList::InvalidateCache()
DoVehInvalidateCache ==
  \E v \in Vehicles :
    /\ ops < MaxOps
    /\ veh[v].packets # <<>>
    /\ ops' = ops + 1
    /\ veh' = [veh EXCEPT ![v] = VehInvalidateCache(pool, @)]
    /\ ret' = Ret("VehInvalidateCache", v, 0, 0, FALSE)
    /\ UNCHANGED <<pool, st, pk>>

\* void CargoList::InvalidateCache() on the station list
DoStInvalidateCache ==
  /\ ops < MaxOps
  /\ DOMAIN st.packets # {}
  /\ ops' = ops + 1
  /\ st' = InvalidateCache(pool, st, StPackets(st))
  /\ ret' = Ret("StInvalidateCache", 0, 0, 0, FALSE)
  /\ UNCHANGED <<pool, veh, pk>>

Next ==
  \/ StationAppendNew
  \/ VehicleAppendNew
  \/ Reserve
  \/ Load
  \/ Return
  \/ Stage
  \/ Transfer
  \/ Unload
  \/ Shift
  \/ VehTruncate
  \/ StTruncate
  \/ DoKeep
  \/ DoKeepAll
  \/ AgeCargo
  \/ StReroute
  \/ DoVehInvalidateCache
  \/ DoStInvalidateCache

Spec == Init /\ [][Next]_vars

\* ---- the packet-level specification ----
PacketInit ==
  /\ pool = [i \in {} |-> Packet(1, 0, 1, INVALID_STATION, 0)]
  /\ st = EmptyStationList
  /\ veh = [v \in Vehicles |-> EmptyVehicleList]
  /\ ret = Ret("init", 0, 0, 0, FALSE)
  /\ ops = 0
  /\ PkInit

\* bool CargoPacket::TryMerge(cp) on the two chosen packets
PkTryMerge ==
  /\ pk.pc = "init"
  /\ LET tm == TryMerge(pk.a, pk.b)
     IN pk' = [pk EXCEPT !.pc = "merged", !.a = tm.this, !.ok = tm.ok]
  /\ UNCHANGED <<pool, st, veh, ret, ops>>

\* CargoPacket *CargoPacket::Split(new_size): a becomes the rest, b the new packet
PkSplit ==
  \E k \in PkParts :
    /\ pk.pc = "init"
    /\ pk' = IF SplitFails(pk.a, k)
             THEN [pk EXCEPT !.pc = "fatal", !.k = k]
             ELSE [pk EXCEPT !.pc = "split", !.k = k,
                             !.a = SplitRest(pk.a, k), !.b = SplitNew(pk.a, k)]
    /\ UNCHANGED <<pool, st, veh, ret, ops>>

\* The split-off packet is merged back into the rest.
PkMergeBack ==
  /\ pk.pc = "split"
  /\ LET tm == TryMerge(pk.a, pk.b)
     IN pk' = [pk EXCEPT !.pc = "rejoined", !.a = tm.this, !.ok = tm.ok]
  /\ UNCHANGED <<pool, st, veh, ret, ops>>

PacketNext == PkTryMerge \/ PkSplit \/ PkMergeBack

SpecPacket == PacketInit /\ [][PacketNext]_vars

\* ---- what the lists hold, counted on the packets themselves ----
VehUnits(p, vs, v) == SumCount(p, vs[v].packets)

StUnits(p, s) == SumCount(p, StPackets(s))

\* uint VehicleCargoList::StoredCount() const
StoredCount(l) == l.count - l.action_counts[MTA_LOAD]

\* Cargo on hand everywhere: at the station (reserved cargo counted there) and
\* on board the vehicles (reserved cargo not counted there).
Held(p, s, vs) ==
  StUnits(p, s) + s.reserved_count
    + SumSet(Vehicles, [v \in Vehicles |-> VehUnits(p, vs, v) - vs[v].action_counts[MTA_LOAD]])

\* How often a packet identifier occurs in the lists.
Occurs(list, id) == Cardinality({i \in 1..Len(list) : list[i] = id})

Holders(id) ==
  Occurs(StPackets(st), id)
    + SumSet(Vehicles, [v \in Vehicles |-> Occurs(veh[v].packets, id)])

Listed ==
  {StPackets(st)[i] : i \in 1..Len(StPackets(st))}
    \cup UNION {{veh[v].packets[i] : i \in 1..Len(veh[v].packets)} : v \in Vehicles}

\* The units in the buckets a Reserve or Load with this stack visits.
Matching(next) ==
  SumSet({k \in DOMAIN st.packets : k = INVALID_STATION \/ InStack(next, k)},
         [k \in DOMAIN st.packets |-> SumCount(pool, st.packets[k])])

\* C1: in every vehicle cargo list the four action counts add up to the
\* cached count, whatever operations ran (AssertCountConsistency never fails).
C1_ActionCountsSumToCount == \A v \in Vehicles : AssertCountConsistency(veh[v])

\* C1 witness: a Reserve has added cargo to load to a vehicle that keeps cargo.
C1_Witness ==
  /\ ret.op = "Reserve"
  /\ ret.moved > 0
  /\ veh[ret.v].action_counts[MTA_LOAD] > 0
  /\ veh[ret.v].action_counts[MTA_KEEP] > 0

\* C2: the caches of every list equal the values recomputed from the packets
\* held (count, cargo_days_in_transit, and feeder_share for a vehicle), so
\* InvalidateCache changes nothing.
C2_CachesExact ==
  /\ \A v \in Vehicles :
       /\ veh[v].count = SumCount(pool, veh[v].packets)
       /\ veh[v].cargo_days_in_transit = SumDays(pool, veh[v].packets)
       /\ veh[v].feeder_share = SumShare(pool, veh[v].packets)
       /\ VehInvalidateCache(pool, veh[v]) = veh[v]
  /\ st.count = SumCount(pool, StPackets(st))
  /\ st.cargo_days_in_transit = SumDays(pool, StPackets(st))
  /\ InvalidateCache(pool, st, StPackets(st)) = st

\* C2 witness: a vehicle list was truncated in part, cargo with feeder share
\* and days in transit being left.
C2_Witness ==
  /\ ret.op = "VehTruncate"
  /\ ret.moved > 0
  /\ veh[ret.v].count > 0
  /\ veh[ret.v].feeder_share > 0
  /\ veh[ret.v].cargo_days_in_transit > 0

\* C3: Reserve, Load, Return, Transfer and Shift take from the source what they
\* add to the destination, which is the amount they report, and leave the
\* cargo on hand unchanged; Truncate and Unload lower it, by what Truncate
\* reports and by the delivered part of what Unload reports.  A Load of cargo
\* the vehicle has reserved takes it from the station's reserved count and
\* adds it to the cargo stored on the vehicle.
C3_Step ==
  LET m == ret'.moved
      v == ret'.v
  IN /\ ret'.op = "Reserve" =>
          /\ StUnits(pool', st') = StUnits(pool, st) - m
          /\ VehUnits(pool', veh', v) = VehUnits(pool, veh, v) + m
          /\ Held(pool', st', veh') = Held(pool, st, veh)
     /\ (ret'.op = "Load" /\ ~ret'.flag) =>
          /\ StUnits(pool', st') = StUnits(pool, st) - m
          /\ VehUnits(pool', veh', v) = VehUnits(pool, veh, v) + m
          /\ Held(pool', st', veh') = Held(pool, st, veh)
     /\ (ret'.op = "Load" /\ ret'.flag) =>
          /\ st'.reserved_count = st.reserved_count - m
          /\ StoredCount(veh'[v]) = StoredCount(veh[v]) + m
          /\ Held(pool', st', veh') = Held(pool, st, veh)
     /\ ret'.op \in {"Return", "Transfer"} =>
          /\ VehUnits(pool', veh', v) = VehUnits(pool, veh, v) - m
          /\ StUnits(pool', st') = StUnits(pool, st) + m
          /\ Held(pool', st', veh') = Held(pool, st, veh)
     /\ ret'.op = "Shift" =>
          /\ VehUnits(pool', veh', v) = VehUnits(pool, veh, v) - m
          /\ \A d \in Vehicles \ {v} : VehUnits(pool', veh', d) = VehUnits(pool, veh, d) + m
          /\ Held(pool', st', veh') = Held(pool, st, veh)
     /\ ret'.op = "VehTruncate" =>
          /\ VehUnits(pool', veh', v) = VehUnits(pool, veh, v) - m
          /\ Held(pool', st', veh') = Held(pool, st, veh) - m
     /\ ret'.op = "StTruncate" =>
          /\ StUnits(pool', st') = StUnits(pool, st) - m
          /\ Held(pool', st', veh') = Held(pool, st, veh) - m
     /\ ret'.op = "Unload" =>
          /\ VehUnits(pool', veh', v) = VehUnits(pool, veh, v) - m
          /\ StUnits(pool', st') >= StUnits(pool, st)
          /\ Held(pool', st', veh') = Held(pool, st, veh) - (m - (StUnits(pool', st') - StUnits(pool, st)))
     /\ ret'.op \in {"Stage", "AgeCargo", "StReroute", "VehInvalidateCache",
                     "StInvalidateCache"} => Held(pool', st', veh') = Held(pool, st, veh)

C3_CargoConserved == [][C3_Step]_vars

\* C3 witness: a Load has taken part of the cargo reserved for the vehicle,
\* which a Reserve had moved to it before; the rest is still reserved.
C3_Witness ==
  /\ ret.op = "Load"
  /\ ret.flag
  /\ ret.moved > 0
  /\ st.reserved_count > 0
  /\ veh[ret.v].action_counts[MTA_KEEP] = ret.moved
  /\ veh[ret.v].action_counts[MTA_LOAD] = st.reserved_count

\* C4: every live packet is held by exactly one list, once, and the lists
\* hold live packets only.
C4_OneOwner ==
  /\ \A id \in DOMAIN pool : Holders(id) = 1
  /\ Listed \subseteq DOMAIN pool

\* C4 witness: a Reserve has split a packet; the two parts are in two lists.
C4_Witness ==
  /\ ret.op = "Reserve"
  /\ ret.moved = ret.max_move
  /\ Cardinality(DOMAIN pool) >= 2
  /\ DOMAIN st.packets # {}
  /\ veh[ret.v].packets # <<>>

\* C5: every live packet has a count from 1 to 65535.
C5_CountInRange == \A id \in DOMAIN pool : 1 <= pool[id].count /\ pool[id].count <= MAX_COUNT

\* C5 witness: a merge was refused for capacity: two packets of one vehicle
\* that agree in all attributes and together exceed MAX_COUNT.
C5_Witness ==
  \E v \in Vehicles : \E i, j \in 1..Len(veh[v].packets) :
    /\ i < j
    /\ VehAreMergable(pool[veh[v].packets[i]], pool[veh[v].packets[j]])
    /\ pool[veh[v].packets[i]].count + pool[veh[v].packets[j]].count > MAX_COUNT

\* C6: for the station list AvailableCount() + ReservedCount() = TotalCount()
\* after every operation.
C6_AvailablePlusReserved == AvailableCount + ReservedCount = TotalCount

\* C6 witness: a Return has given back part of the reserved cargo.
C6_Witness ==
  /\ ret.op = "Return"
  /\ ret.moved > 0
  /\ st.reserved_count > 0
  /\ st.count > 0

\* The cargo a call could have moved, in the state before it.
Eligible(op, v, next) ==
  CASE op = "Return" -> veh[v].action_counts[MTA_LOAD]
    [] op = "Unload" -> UnloadCount(v)
    [] op = "Shift" -> VehUnits(pool, veh, v)
    [] op = "VehTruncate" -> VehUnits(pool, veh, v)
    [] op = "StTruncate" -> StUnits(pool, st)
    [] op = "Reserve" -> Matching(next)
    [] op = "Load" -> IF veh[v].action_counts[MTA_LOAD] > 0
                      THEN veh[v].action_counts[MTA_LOAD] ELSE Matching(next)

\* C7: a moving call returns at most max_move and at most the eligible cargo:
\* it returns the lesser of the two, and Truncate leaves the rest.
C7_Step ==
  ret'.op \in {"Return", "Unload", "Shift", "VehTruncate", "StTruncate", "Reserve", "Load"} =>
    LET m == ret'.moved
        e == Eligible(ret'.op, ret'.v, ret'.next)
    IN /\ m <= ret'.max_move
       /\ m <= e
       /\ m = (IF ret'.max_move < e THEN ret'.max_move ELSE e)
       /\ ret'.op = "VehTruncate" => VehUnits(pool', veh', ret'.v) = e - m
       /\ ret'.op = "StTruncate" => StUnits(pool', st') = e - m

C7_Clamped == [][C7_Step]_vars

\* C7 witness: a Truncate asked for more than the list held and removed all.
C7_Witness ==
  /\ ret.op = "VehTruncate"
  /\ ret.moved > 0
  /\ ret.moved < ret.max_move
  /\ veh[ret.v].packets = <<>>

\* C8: TryMerge succeeds exactly when the two counts add up to at most 65535;
\* then the receiver has the sum of the counts and of the feeder shares,
\* otherwise both packets are as before.
C8_TryMerge ==
  pk.pc = "merged" =>
    /\ pk.ok <=> (pk.a0.count + pk.b0.count <= 65535)
    /\ pk.ok => /\ pk.a.count = pk.a0.count + pk.b0.count
                /\ pk.a.feeder_share = pk.a0.feeder_share + pk.b0.feeder_share
    /\ ~pk.ok => pk.a = pk.a0 /\ pk.b = pk.b0

\* C8 witness: a merge to exactly 65535 units succeeded.
C8_Witness == pk.pc = "merged" /\ pk.ok /\ pk.a.count = 65535 /\ pk.a.feeder_share # 0

\* C9: Split(new_size) with 0 < new_size < C gives a new packet of new_size
\* units and the feeder share F * new_size / C, and leaves C - new_size units
\* and the rest of F; with new_size >= C it is a fatal error.
C9_Split ==
  /\ pk.pc = "fatal" => pk.k >= pk.a0.count /\ pk.a = pk.a0
  /\ pk.pc = "split" =>
    /\ 0 < pk.k /\ pk.k < pk.a0.count
    /\ pk.b.count = pk.k
    /\ pk.a.count = pk.a0.count - pk.k
    /\ pk.a.count + pk.b.count = pk.a0.count
    /\ pk.b.feeder_share = Quot(pk.a0.feeder_share * pk.k, pk.a0.count)
    /\ pk.a.feeder_share = pk.a0.feeder_share - Quot(pk.a0.feeder_share * pk.k, pk.a0.count)
    /\ pk.a.feeder_share + pk.b.feeder_share = pk.a0.feeder_share

\* C9 witness: a split whose proportional share is rounded.
C9_Witness ==
  /\ pk.pc = "split"
  /\ pk.b.feeder_share * pk.a0.count # pk.a0.feeder_share * pk.k
  /\ pk.b.feeder_share # 0

\* C10: splitting k units off a packet and merging them back gives the
\* original count and feeder share.
C10_RoundTrip ==
  pk.pc = "rejoined" =>
    /\ pk.ok
    /\ pk.a.count = pk.a0.count
    /\ pk.a.feeder_share = pk.a0.feeder_share

\* C10 witness: a full packet of 65535 units was split and rejoined.
C10_Witness ==
  /\ pk.pc = "rejoined"
  /\ pk.a0.count = MAX_COUNT
  /\ pk.a.count = MAX_COUNT
  /\ pk.a0.feeder_share # 0

\* The packets among ids (a list, or one bucket) that take cp in a merge.
Fits(p, ids, cp, mergable(_, _)) ==
  {i \in 1..Len(ids) : mergable(p[ids[i]], cp) /\ p[ids[i]].count + cp.count <= MAX_COUNT}

\* ids2 is ids with the packet at one place of F grown by c units.
MergedInto(p, ids, p2, ids2, F, c) ==
  /\ ids2 = ids
  /\ \E i \in F :
       /\ p2[ids[i]].count = p[ids[i]].count + c
       /\ \A j \in (1..Len(ids)) \ {i} : p2[ids[j]] = p[ids[j]]

\* ids2 is ids with a packet cp put behind it, nothing else changed.
PutBehind(p, ids, p2, ids2, cp) ==
  /\ Len(ids2) = Len(ids) + 1
  /\ SubSeq(ids2, 1, Len(ids)) = ids
  /\ p2[ids2[Len(ids2)]] = cp
  /\ \A j \in 1..Len(ids) : p2[ids[j]] = p[ids[j]]

\* C11: Append merges when it can and never drops cargo: a packet appended
\* to a list that holds packets with the same attributes (the same bucket,
\* for the station) is merged into one of them when the summed count is at
\* most 65535, and otherwise put behind them as a packet of its own; the
\* cached count and the units in the packets grow by the appended count.
C11_Step ==
  LET c == ret'.moved
  IN /\ ret'.op = "StationAppend" =>
          LET key == ret'.next[1]
              cp == Packet(c, 0, CurrentStation, key, 0)
              B == Bucket(st.packets, key)
              B2 == Bucket(st'.packets, key)
              F == Fits(pool, B, cp, StAreMergable)
          IN /\ st'.count = st.count + c
             /\ StUnits(pool', st') = StUnits(pool, st) + c
             /\ \A k \in (DOMAIN st.packets) \ {key} :
                  k \in DOMAIN st'.packets /\ st'.packets[k] = st.packets[k]
             /\ F # {} => MergedInto(pool, B, pool', B2, F, c)
             /\ F = {} => PutBehind(pool, B, pool', B2, cp)
     /\ ret'.op = "VehicleAppend" =>
          LET v == ret'.v
              L == veh[v]
          IN /\ veh'[v].count = L.count + c
             /\ VehUnits(pool', veh', v) = VehUnits(pool, veh, v) + c
             /\ veh'[v].action_counts[MTA_KEEP] = L.action_counts[MTA_KEEP] + c
             /\ L.action_counts[MTA_KEEP] = L.count =>
                  \E share \in NewShares, days \in NewDays :
                    LET cp == Packet(c, days, ret'.next[1], ret'.next[2], share)
                        F == Fits(pool, L.packets, cp, VehAreMergable)
                    IN /\ F # {} => MergedInto(pool, L.packets, pool', veh'[v].packets, F, c)
                       /\ F = {} => PutBehind(pool, L.packets, pool', veh'[v].packets, cp)

ChooseInit ==
  /\ pool = [i \in {} |-> Packet(1, 0, 1, INVALID_STATION, 0)]
  /\ st = EmptyStationList
  /\ veh = [v \in Vehicles |-> EmptyVehicleList]
  /\ ret = Ret("init", 0, 0, 0, FALSE)
  /\ ops = 0
  /\ \E cargo_next \in Keys, current_station \in Stations, accepted \in BOOLEAN,
        next_station \in Stacks, unload \in BOOLEAN, transfer \in BOOLEAN :
       pk = [pc |-> "init", cargo_next |-> cargo_next,
             current_station |-> current_station, accepted |-> accepted,
             next_station |-> next_station, unload |-> unload, transfer |-> transfer,
             chosen |-> MTA_LOAD, staged |-> MTA_LOAD]

\* ChooseAction on its five arguments, and the designation Stage gives the
\* packet under the order's flags.
PkChoose ==
  /\ pk.pc = "init"
  /\ LET cp == Packet(1, 0, pk.current_station, pk.cargo_next, 0)
     IN pk' = [pk EXCEPT
                 !.pc = "chosen",
                 !.chosen = ChooseAction(cp, pk.cargo_next, pk.current_station,
                                         pk.accepted, pk.next_station),
                 !.staged = StageAction(cp, pk.cargo_next, pk.current_station,
                                        pk.accepted, pk.next_station,
                                        pk.unload, pk.transfer)]
  /\ UNCHANGED <<pool, st, veh, ret, ops>>

ChooseNext == PkChoose

SpecChoose == ChooseInit /\ [][ChooseNext]_vars

\* The spec's four rules, in order, on the inputs held in pk.
FourRules ==
  LET onward == \E i \in 1..Len(pk.next_station) : pk.next_station[i] = pk.cargo_next
  IN IF (pk.cargo_next = INVALID_STATION \/ pk.cargo_next = pk.current_station) /\ pk.unload
     THEN (IF pk.transfer THEN MTA_TRANSFER ELSE MTA_DELIVER)
     ELSE IF pk.accepted /\ ~onward THEN MTA_DELIVER
     ELSE IF pk.cargo_next = pk.current_station /\ ~onward THEN MTA_TRANSFER
     ELSE MTA_KEEP

\* C12 (amended): the designation Stage gives a packet, from the order's
\* unload and transfer flags and then ChooseAction, is exactly one of
\* TRANSFER, DELIVER, KEEP and is the one the four rules give, taken in
\* order, for every combination of inputs.
C12_StageFollowsRules ==
  pk.pc = "chosen" =>
    /\ pk.staged \in {MTA_TRANSFER, MTA_DELIVER, MTA_KEEP}
    /\ pk.chosen \in {MTA_TRANSFER, MTA_DELIVER, MTA_KEEP}
    /\ pk.staged = FourRules
    /\ ~((pk.cargo_next = INVALID_STATION \/ pk.cargo_next = pk.current_station) /\ pk.unload)
         => pk.chosen = FourRules

\* C12 witness: unload is forced with the transfer flag at the packet's next
\* hop, which also accepts the cargo: rule 1 gives TRANSFER, before rule 2.
C12_Witness ==
  /\ pk.pc = "chosen"
  /\ pk.cargo_next = pk.current_station
  /\ pk.unload /\ pk.transfer /\ pk.accepted
  /\ pk.staged = MTA_TRANSFER

\* C12 as stated: ChooseAction, on its five arguments, gives what the four
\* rules give.
C12_ChooseActionAlone == pk.pc = "chosen" => pk.chosen = FourRules

\* ---- Stage on a vehicle list as the appends leave it, on chosen inputs ----
StageVehicle == 1

\* A list of one or two packets put into an empty vehicle by Append.
Loaded(c1, s1, two, c2, s2) ==
  LET e == [i \in {} |-> Packet(1, 0, 1, INVALID_STATION, 0)]
      r1 == VehAppend(PoolPut(e, 1, Packet(c1, 0, s1, 1, 0)), EmptyVehicleList, 1, MTA_KEEP)
      id == FreeID(r1.pool)
  IN IF two
     THEN VehAppend(PoolPut(r1.pool, id, Packet(c2, 0, s2, 1, 0)), r1.l, id, MTA_KEEP)
     ELSE r1

StageInit ==
  /\ st = EmptyStationList
  /\ ret = Ret("init", 0, 0, 0, FALSE)
  /\ ops = 0
  /\ pk = [pc |-> "init"]
  /\ \E c1 \in NewCounts, c2 \in NewCounts, s1 \in Stations, s2 \in Stations,
        two \in BOOLEAN :
       LET r == Loaded(c1, s1, two, c2, s2)
       IN /\ pool = r.pool
          /\ veh = [v \in Vehicles |-> IF v = StageVehicle THEN r.l ELSE EmptyVehicleList]

\* bool VehicleCargoList::Stage(...), once and once more; pk keeps the
\* arguments, the value returned and the list as it was before the call.
PkStage ==
  \E accepted \in BOOLEAN, next \in Stacks, flags \in OrderFlags, share \in TransferShares :
   \E via \in [SourcesOf(pool, veh[StageVehicle]) -> Keys] :
    /\ pk.pc \in {"init", "staged"}
    /\ veh[StageVehicle].action_counts[MTA_LOAD] = 0
    /\ LET r == StageResult(pool, veh[StageVehicle], via, CurrentStation, accepted, next,
                            flags.unload, flags.transfer, share)
       IN /\ pool' = r.pool
          /\ veh' = [veh EXCEPT ![StageVehicle] = r.l]
          /\ pk' = [pc |-> IF pk.pc = "init" THEN "staged" ELSE "restaged",
                    accepted |-> accepted, next_station |-> next,
                    unload |-> flags.unload, transfer |-> flags.transfer, via |-> via,
                    result |-> (r.l.action_counts[MTA_DELIVER] > 0
                                  \/ r.l.action_counts[MTA_TRANSFER] > 0),
                    before |-> veh[StageVehicle], pool0 |-> pool]
    /\ UNCHANGED <<st, ret, ops>>

StageNext == PkStage

SpecStage == StageInit /\ [][StageNext]_vars

\* ---- C13, C14: Stage ----
Staged == pk.pc \in {"staged", "restaged"}
IdsBefore == {pk.before.packets[i] : i \in 1..Len(pk.before.packets)}
\* The packets whose next hop is the wildcard or the station the vehicle is at.
DueHere == {id \in IdsBefore :
              pk.via[pk.pool0[id].source_st] \in {INVALID_STATION, CurrentStation}}

\* C13: when the order forces unloading and asks for a transfer, Stage puts
\* every packet whose next hop is the wildcard or the current station into the
\* TRANSFER designation: the TRANSFER count is the sum of their counts, they
\* are the packets at the front of the list, and when all the cargo aboard is
\* of that kind the DELIVER, KEEP and LOAD counts are 0.
C13_ForcedTransfer ==
  (Staged /\ pk.unload /\ pk.transfer) =>
    LET L == veh[StageVehicle]
        n == Cardinality(DueHere)
    IN /\ L.action_counts[MTA_TRANSFER]
            = SumSet(DueHere, [id \in DueHere |-> pk.pool0[id].count])
       /\ {L.packets[i] : i \in 1..n} = DueHere
       /\ \A id \in DueHere : pool[id].count = pk.pool0[id].count
       /\ (DueHere = IdsBefore =>
             /\ L.action_counts[MTA_TRANSFER] = pk.before.count
             /\ L.action_counts[MTA_DELIVER] = 0
             /\ L.action_counts[MTA_KEEP] = 0
             /\ L.action_counts[MTA_LOAD] = 0)

\* One KEEP packet whose next hop is the current station, staged under an
\* order that forces unloading and transfers.
C13_Witness ==
  /\ pk.pc = "staged" /\ pk.unload /\ pk.transfer
  /\ Len(pk.before.packets) = 1
  /\ pk.before.action_counts[MTA_KEEP] = pk.before.count
  /\ \A s \in DOMAIN pk.via : pk.via[s] = CurrentStation
  /\ veh[StageVehicle].action_counts[MTA_TRANSFER] = pk.before.count
  /\ veh[StageVehicle].action_counts[MTA_KEEP] = 0

\* C14: Stage returns true exactly when UnloadCount() is nonzero afterwards,
\* and it leaves the count of the list as it was.
C14_StageReturn ==
  Staged =>
    /\ pk.result = (UnloadCount(StageVehicle) # 0)
    /\ veh[StageVehicle].count = pk.before.count
    /\ StoredCount(veh[StageVehicle]) + veh[StageVehicle].action_counts[MTA_LOAD]
         = pk.before.count

\* Stage answered true with cargo to deliver only, and false on another list.
C14_Witness ==
  /\ pk.pc = "restaged"
  /\ pk.result
  /\ veh[StageVehicle].action_counts[MTA_TRANSFER] = 0
  /\ veh[StageVehicle].action_counts[MTA_DELIVER] = 2
  /\ veh[StageVehicle].action_counts[MTA_KEEP] = MAX_COUNT - 1

\* ---- C15: the order in which Reserve and Load take cargo ----
BucketUnits(p, s, k) == SumCount(p, Bucket(s.packets, k))

RECURSIVE UnitsAhead(_, _, _, _)
UnitsAhead(p, s, order, j) ==
  IF j <= 1 THEN 0
  ELSE BucketUnits(p, s, order[j - 1]) + UnitsAhead(p, s, order, j - 1)

\* A Reserve, or a Load that takes cargo from the station.
FromStation(r) == r.op \in {"Reserve", "Load"} /\ ~r.flag

\* C15: Reserve and Load take the buckets of the stack's stations in the
\* stack's order and the wildcard bucket last: a bucket gives cargo only when
\* every bucket before it is empty afterwards, it gives what the buckets
\* before it left of max_move, and a bucket of another key gives nothing.
C15_Step ==
  FromStation(ret') =>
    LET order == ret'.next \o <<INVALID_STATION>>
    IN /\ \A k \in Keys :
            (\A j \in 1..Len(order) : order[j] # k) =>
               BucketUnits(pool', st', k) = BucketUnits(pool, st, k)
       /\ \A j \in 1..Len(order) :
            LET had == BucketUnits(pool, st, order[j])
                has == BucketUnits(pool', st', order[j])
                ahead == UnitsAhead(pool, st, order, j)
                want == IF ret'.max_move > ahead THEN ret'.max_move - ahead ELSE 0
            IN /\ had - has = (IF want < had THEN want ELSE had)
               /\ has < had => \A i \in 1..(j - 1) : BucketUnits(pool', st', order[i]) = 0

C15_PriorityOrder == [][C15_Step]_vars

\* Load(3, <<2>>) on 2 units for station 2 and 2 wildcard units: the 2 units
\* for station 2 and 1 wildcard unit are aboard, 1 wildcard unit is left.
C15_Witness ==
  /\ ret.op = "Load" /\ ~ret.flag
  /\ ret.next = <<2>>
  /\ ret.max_move = 3 /\ ret.moved = 3
  /\ DOMAIN st.packets = {INVALID_STATION}
  /\ BucketUnits(pool, st, INVALID_STATION) = 1
  /\ veh[ret.v].action_counts[MTA_KEEP] = 3

\* ---- C16: what Reserve and Load have done when they return ----
\* b2 is what is left of bucket b when packets were taken from its front: a
\* tail of b, whose first packet alone may have lost units.
FrontTaken(p, b, p2, b2) ==
  \E n \in 0..Len(b) :
    /\ b2 = SubSeq(b, n + 1, Len(b))
    /\ \A i \in 2..Len(b2) : p2[b2[i]] = p[b2[i]]
    /\ b2 # <<>> => /\ p2[b2[1]].count >= 1
                    /\ p2[b2[1]].count <= p[b2[1]].count
                    /\ p2[b2[1]].source_st = p[b2[1]].source_st

\* C16: when Reserve or Load returns, it has moved max_move units or the
\* buckets of the stack's stations and the wildcard bucket are all empty; the
\* amount returned is the lesser of max_move and the cargo those buckets held,
\* the vehicle has gained exactly that amount, and a bucket that still holds
\* cargo holds a tail of its old packets, the first one cut to what was not
\* needed.
C16_Step ==
  FromStation(ret') =>
    LET order == ret'.next \o <<INVALID_STATION>>
        keys == {order[j] : j \in 1..Len(order)}
        held == SumSet(keys, [k \in keys |-> BucketUnits(pool, st, k)])
        left == SumSet(keys, [k \in keys |-> BucketUnits(pool', st', k)])
        m == ret'.moved
    IN /\ m = ret'.max_move \/ left = 0
       /\ m <= ret'.max_move
       /\ m = (IF ret'.max_move < held THEN ret'.max_move ELSE held)
       /\ left = held - m
       /\ VehUnits(pool', veh', ret'.v) = VehUnits(pool, veh, ret'.v) + m
       /\ \A k \in Keys :
            FrontTaken(pool, Bucket(st.packets, k), pool', Bucket(st'.packets, k))

IdsOf(l) == {l.packets[i] : i \in 1..Len(l.packets)}

\* The packets of l2 that came aboard or received cargo in the step.
Arrived(p, l, p2, l2) ==
  {id \in IdsOf(l2) : id \notin IdsOf(l) \/ p2[id].count > p[id].count}

\* The action counts of l2 are those of l with m more in designation a and
\* m less in designation b (b = a: no change).
Redesignated(l, l2, a, b, m) ==
  \A x \in Actions :
    l2.action_counts[x] = l.action_counts[x] + (IF x = a THEN m ELSE 0)
                                             - (IF x = b THEN m ELSE 0)

\* C17: what Reserve moves arrives as LOAD and what Load takes from the
\* station arrives as KEEP, in packets whose loaded-at tile is the load tile;
\* Reserve of m units raises reserved_count by m and lowers AvailableCount by
\* m with TotalCount unchanged; a Load after a Reserve turns m reserved units
\* into KEEP and lowers reserved_count by m, not below 0.
C17_Step ==
  LET v == ret'.v
      m == ret'.moved
      came == Arrived(pool, veh[v], pool', veh'[v])
  IN /\ ret'.op = "Reserve" =>
          /\ veh'[v].count = veh[v].count + m
          /\ Redesignated(veh[v], veh'[v], MTA_LOAD, MTA_LOAD + 1, m)
          /\ \A id \in came : pool'[id].leg \in Tiles
          /\ m > 0 => came # {}
          /\ ReservedCount' = ReservedCount + m
          /\ AvailableCount' = AvailableCount - m
          /\ TotalCount' = TotalCount
     /\ (ret'.op = "Load" /\ ~ret'.flag) =>
          /\ veh'[v].count = veh[v].count + m
          /\ Redesignated(veh[v], veh'[v], MTA_KEEP, MTA_LOAD + 1, m)
          /\ \A id \in came : pool'[id].leg \in Tiles
          /\ m > 0 => came # {}
          /\ ReservedCount' = ReservedCount
          /\ AvailableCount' = AvailableCount - m
     /\ (ret'.op = "Load" /\ ret'.flag) =>
          /\ veh'[v].count = veh[v].count
          /\ Redesignated(veh[v], veh'[v], MTA_KEEP, MTA_LOAD, m)
          /\ m <= VehReservedCount(v)
          /\ ReservedCount' = ReservedCount - m
          /\ ReservedCount' >= 0
          /\ AvailableCount' = AvailableCount
     /\ \A w \in Vehicles : VehReservedCount(w)' <= ReservedCount'

C17_ReserveThenLoad == [][C17_Step]_vars

\* Two units were reserved and then loaded: the vehicle keeps them in packets
\* stamped with the load tile, and nothing is left reserved at the station.
C17_Witness ==
  /\ ret.op = "Load" /\ ret.flag
  /\ ret.moved = 2
  /\ st.reserved_count = 0
  /\ st.count = 0
  /\ veh[ret.v].action_counts[MTA_KEEP] = 2
  /\ veh[ret.v].action_counts[MTA_LOAD] = 0
  /\ \A id \in IdsOf(veh[ret.v]) : pool[id].leg \in Tiles /\ pool[id].leg # 2

\* ---- C18: StationCargoList::Reroute ----
\* The packets of list b whose source station is sent to key k by hops.
SentTo(p, b, hops, k) ==
  LET Goes(id) == hops[p[id].source_st] = k
  IN SelectSeq(b, Goes)

\* C18: Reroute(X, INVALID_STATION, ge) puts every packet of the bucket of X
\* behind the packets of the bucket the goods entry names for it; afterwards
\* the map has no key X and no key with an empty sequence, the other packets
\* are where they were, and count, reserved_count and the packets themselves
\* are unchanged.
C18_Step ==
  (ret'.op = "StReroute" /\ ret'.moved = INVALID_STATION) =>
    LET X == ret'.max_move
        moved == Bucket(st.packets, X)
    IN /\ X \notin DOMAIN st'.packets
       /\ \A k \in DOMAIN st'.packets : st'.packets[k] # <<>>
       /\ \A k \in Keys \ {X} :
            Bucket(st'.packets, k)
              = Bucket(st.packets, k) \o SentTo(pool, moved, ret'.next, k)
       /\ \A i \in 1..Len(moved) : ret'.next[pool[moved[i]].source_st] # X
       /\ pool' = pool
       /\ st'.count = st.count
       /\ st'.reserved_count = st.reserved_count
       /\ st'.cargo_days_in_transit = st.cargo_days_in_transit

C18_RerouteRekeys == [][C18_Step]_vars

\* The packet that waited for station 2 now stands behind the packet that
\* waits for station 1, and the map has the key 1 only.
C18_Witness ==
  /\ ret.op = "StReroute" /\ ret.moved = INVALID_STATION
  /\ ret.max_move = 2
  /\ DOMAIN st.packets = {1}
  /\ Len(st.packets[1]) = 2
  /\ pool[st.packets[1][2]].leg = 2
  /\ pool[st.packets[1][1]].leg = 1

\* ---- C19: HasCargoFor ----
\* What a Load of max_move units for the stack next moves from the station to
\* vehicle v, which has nothing reserved.
LoadFromStation(v, max_move, next) ==
  StShiftCargo(World, v, max_move, "load", CHOOSE t \in Tiles : TRUE,
               next \o <<INVALID_STATION>>)

C20_Step ==
  ret'.op = "AgeCargo" =>
    LET v == ret'.v
        ids == IdsOf(veh[v])
        young == {id \in ids : pool[id].days_in_transit < 255}
    IN /\ veh'[v].packets = veh[v].packets
       /\ DOMAIN pool' = DOMAIN pool
       /\ \A id \in DOMAIN pool :
            pool'[id] = [pool[id] EXCEPT !.days_in_transit =
                           IF id \in young THEN @ + 1 ELSE @]
       /\ \A id \in ids : pool'[id].days_in_transit <= 255
       /\ veh'[v].count = veh[v].count
       /\ veh'[v].action_counts = veh[v].action_counts
       /\ veh'[v].feeder_share = veh[v].feeder_share
       /\ veh'[v].cargo_days_in_transit
            = veh[v].cargo_days_in_transit
                + SumSet(young, [id \in young |-> pool[id].count])
       /\ \A w \in Vehicles \ {v} : veh'[w] = veh[w]
       /\ st' = st

C20_AgeSaturates == [][C20_Step]_vars

\* A packet that had reached 255 days was aged once more: the call added
\* nothing to cargo_days_in_transit.
C20_Witness ==
  /\ ret.op = "AgeCargo"
  /\ ret.moved = 0
  /\ Len(veh[ret.v].packets) = 1
  /\ pool[veh[ret.v].packets[1]].days_in_transit = 255
  /\ veh[ret.v].cargo_days_in_transit = 255 * veh[ret.v].count

\* ---- C21: Keep ----
\* C21: Keep(from, max_move) with from MTA_DELIVER or MTA_LOAD moves the
\* lesser of action_counts[from] and max_move from that designation to
\* MTA_KEEP; the other two action counts, the count, the packets, the other
\* caches, the other lists and the pool are unchanged and no action count is
\* negative. With from MTA_TRANSFER or MTA_KEEP the assert fails: nothing is
\* changed and no call follows.
C21_Step ==
  /\ ret'.op = "Keep" =>
       LET v == ret'.v
           from == ret'.next[1]
           had == veh[v].action_counts[from]
           m == IF had < ret'.max_move THEN had ELSE ret'.max_move
       IN /\ from \in {MTA_DELIVER, MTA_LOAD}
          /\ ret'.moved = m
          /\ veh'[v].action_counts[from] = had - m
          /\ veh'[v].action_counts[MTA_KEEP] = veh[v].action_counts[MTA_KEEP] + m
          /\ \A a \in Actions \ {from, MTA_KEEP} :
               veh'[v].action_counts[a] = veh[v].action_counts[a]
          /\ \A a \in Actions : veh'[v].action_counts[a] >= 0
          /\ veh'[v] = [veh[v] EXCEPT !.action_counts = veh'[v].action_counts]
          /\ \A w \in Vehicles \ {v} : veh'[w] = veh[w]
          /\ pool' = pool /\ st' = st
  /\ ret'.op = "KeepAssert" =>
       /\ ret'.next[1] \in {MTA_TRANSFER, MTA_KEEP}
       /\ veh' = veh /\ pool' = pool /\ st' = st
       /\ ops' = MaxOps
  /\ ret.op = "KeepAssert" => UNCHANGED vars

C21_KeepFrame == [][C21_Step]_vars

\* Keep(MTA_DELIVER, 1) on a list whose 2 units were all to deliver: one
\* unit is kept, one is still to deliver.
C21_Witness ==
  /\ ret.op = "Keep" /\ ret.next = <<MTA_DELIVER>>
  /\ ret.max_move = 1 /\ ret.moved = 1
  /\ veh[ret.v].action_counts[MTA_DELIVER] = 1
  /\ veh[ret.v].action_counts[MTA_KEEP] = 1
  /\ veh[ret.v].count = 2

\* ---- C22: KeepAll ----
\* C22: after KeepAll the MTA_KEEP count is the count of the list and the
\* MTA_TRANSFER, MTA_DELIVER and MTA_LOAD counts are 0, whatever they were;
\* count, packets, the other caches, the other lists and the pool are
\* unchanged.
C22_Step ==
  ret'.op = "KeepAll" =>
    LET v == ret'.v
    IN /\ veh'[v].action_counts[MTA_KEEP] = veh[v].count
       /\ veh'[v].action_counts[MTA_TRANSFER] = 0
       /\ veh'[v].action_counts[MTA_DELIVER] = 0
       /\ veh'[v].action_counts[MTA_LOAD] = 0
       /\ veh'[v].count = veh[v].count
       /\ veh'[v].packets = veh[v].packets
       /\ veh'[v].cargo_days_in_transit = veh[v].cargo_days_in_transit
       /\ veh'[v].feeder_share = veh[v].feeder_share
       /\ \A w \in Vehicles \ {v} : veh'[w] = veh[w]
       /\ pool' = pool /\ st' = st

C22_KeepAllFrame == [][C22_Step]_vars

\* KeepAll on a vehicle all of whose cargo was reserved: the station still
\* counts it as reserved, the vehicle keeps it.
C22_Witness ==
  /\ ret.op = "KeepAll"
  /\ veh[ret.v].count > 0
  /\ st.reserved_count = veh[ret.v].count
  /\ veh[ret.v].action_counts[MTA_KEEP] = veh[ret.v].count
  /\ veh[ret.v].action_counts[MTA_LOAD] = 0
  /\ \A w \in Vehicles \ {ret.v} : veh[w].count = 0

\* ---- C23: Return ----
\* C23: Return(dest, max_move) returns r, the lesser of max_move and the
\* MTA_LOAD count; the vehicle's MTA_LOAD count and count fall by r and its
\* other action counts stay; at the station the available count rises by r and
\* reserved_count falls by r, so TotalCount stays; r units leave the
\* vehicle's packets and arrive in the station's.
C23_Step ==
  ret'.op = "Return" =>
    LET v == ret'.v
        had == VehReservedCount(v)
        r == IF ret'.max_move < had THEN ret'.max_move ELSE had
    IN /\ ret'.moved = r
       /\ veh'[v].count = veh[v].count - r
       /\ Redesignated(veh[v], veh'[v], MTA_LOAD + 1, MTA_LOAD, r)
       /\ VehUnits(pool', veh', v) = VehUnits(pool, veh, v) - r
       /\ \A w \in Vehicles \ {v} : veh'[w] = veh[w]
       /\ AvailableCount' = AvailableCount + r
       /\ ReservedCount' = ReservedCount - r
       /\ ReservedCount' >= 0
       /\ TotalCount' = TotalCount
       /\ StUnits(pool', st') = StUnits(pool, st) + r

C24_Step ==
  ret'.op = "Transfer" =>
    LET v == ret'.v
        t == veh[v].action_counts[MTA_TRANSFER]
    IN /\ ret'.moved = t
       /\ veh'[v].action_counts[MTA_TRANSFER] = 0
       /\ veh'[v].count = veh[v].count - t
       /\ Redesignated(veh[v], veh'[v], MTA_LOAD + 1, MTA_TRANSFER, t)
       /\ VehUnits(pool', veh', v) = VehUnits(pool, veh, v) - t
       /\ \A w \in Vehicles \ {v} : veh'[w] = veh[w]
       /\ st'.count = st.count + t
       /\ StUnits(pool', st') = StUnits(pool, st) + t
       /\ st'.reserved_count = st.reserved_count

Waiting(c1, k1, two, c2, k2) ==
  LET e == [i \in {} |-> Packet(1, 0, 1, INVALID_STATION, 0)]
      r1 == StAppend(PoolPut(e, 1, Packet(c1, 0, CurrentStation, k1, 0)),
                     EmptyStationList, 1, k1)
      id == FreeID(r1.pool)
  IN IF two
     THEN StAppend(PoolPut(r1.pool, id, Packet(c2, 0, CurrentStation, k2, 0)), r1.l, id, k2)
     ELSE r1

ReserveInit ==
  /\ veh = [v \in Vehicles |-> EmptyVehicleList]
  /\ ret = Ret("init", 0, 0, 0, FALSE)
  /\ ops = 0
  /\ pk = PkIdle
  /\ \E c1 \in NewCounts, k1 \in Keys, two \in BOOLEAN :
       LET c2 == CHOOSE c \in NewCounts : \A d \in NewCounts : c <= d
           k2 == INVALID_STATION
           r == Waiting(c1, k1, two, c2, k2)
       IN pool = r.pool /\ st = r.l

ReserveNext == Reserve \/ Load \/ Return

SpecReserve == ReserveInit /\ [][ReserveNext]_vars

\* ---- C25: reservation bookkeeping ----
\* C25: after any sequence of Reserve, Load and Return the station's
\* reserved_count is the sum of the vehicles' ReservedCount(); TotalCount()
\* is the cargo in the station's packets plus that sum, so reserved cargo is
\* counted once, and reserved_count is 0 when no vehicle has cargo reserved.
C25_ReservedMatches ==
  LET reserved == SumSet(Vehicles, [v \in Vehicles |-> VehReservedCount(v)])
  IN /\ st.reserved_count = reserved
     /\ TotalCount = StUnits(pool, st) + reserved
     /\ (\A v \in Vehicles : VehReservedCount(v) = 0) => st.reserved_count = 0
     /\ \A v \in Vehicles : VehReservedCount(v) <= VehUnits(pool, veh, v)

\* Both vehicles have reserved cargo at the station.
C25_Witness ==
  /\ ret.op = "Reserve"
  /\ \A v \in Vehicles : VehReservedCount(v) > 0
  /\ st.reserved_count > VehReservedCount(ret.v)

\* ---- CargoPacket::InvalidateAllFrom(StationID sid) ----
\* The sweep over all packets of the pool: a packet is looked at on its own,
\* and loaded_at_xy and next_station are one field of it.
InvalidateAllFrom(p, sid) ==
  [id \in DOMAIN p |->
     IF p[id].leg = sid THEN [p[id] EXCEPT !.leg = INVALID_STATION] ELSE p[id]]

\* Cargo waiting at the station and one packet aboard vehicle 1, as the
\* appends leave them.
InvalidateInit ==
  /\ ret = Ret("init", 0, 0, 0, FALSE)
  /\ ops = 0
  /\ pk = [pc |-> "init"]
  /\ \E c1 \in NewCounts, k1 \in Keys, two \in BOOLEAN,
        c \in NewCounts, days \in NewDays, src \in Stations, tile \in Tiles,
        share \in NewShares :
       LET c2 == CHOOSE x \in NewCounts : \A d \in NewCounts : x <= d
           w == Waiting(c1, k1, two, c2, INVALID_STATION)
           id == FreeID(w.pool)
           r == VehAppend(PoolPut(w.pool, id, Packet(c, days, src, tile, share)),
                          EmptyVehicleList, id, MTA_KEEP)
       IN /\ pool = r.pool
          /\ st = w.l
          /\ veh = [v \in Vehicles |-> IF v = StageVehicle THEN r.l ELSE EmptyVehicleList]

\* A station is removed: InvalidateAllFrom(sid), once and once more for
\* another or the same station; pk keeps sid and the pool before the call.
PkInvalidateAllFrom ==
  \E sid \in Stations :
    /\ pk.pc \in {"init", "swept"}
    /\ pool' = InvalidateAllFrom(pool, sid)
    /\ pk' = [pc |-> IF pk.pc = "init" THEN "swept" ELSE "swept again",
              sid |-> sid, pool0 |-> pool]
    /\ UNCHANGED <<st, veh, ret, ops>>

InvalidateNext == PkInvalidateAllFrom

SpecInvalidate == InvalidateInit /\ [][InvalidateNext]_vars

\* ---- C26: InvalidateAllFrom(station_id) ----
Swept == pk.pc \in {"swept", "swept again"}

\* The packets in the station's list and the packets aboard the vehicles.
AtStation == {id \in DOMAIN pool : \E i \in 1..Len(StPackets(st)) : StPackets(st)[i] = id}
Aboard == {id \in DOMAIN pool : \E v \in Vehicles : id \in IdsOf(veh[v])}

====
